---- MODULE Spec2Model ----
(***************************************************************************)
(* A model of the two state machines of the ecommerce backend:             *)
(*   - products/models.py: CommentProduct (clean/save) and                 *)
(*     VoteComment.toggle_vote, once as an atomic call and once statement  *)
(*     by statement with several calls interleaved;                        *)
(*   - accounts/views/auth_views.py: GenerateOTPView, VerifyOTPView,       *)
(*     EmailLoginView and NumberLoginView over the OTP store.              *)
(***************************************************************************)
EXTENDS Integers, FiniteSets, Sequences, TLC

VARIABLES
    comments,     \* CommentProduct table: id -> row
    votes,        \* VoteComment table: set of rows [id, comment, user, vote_type]
    nextVoteId,   \* the next primary key of the VoteComment table
    procs,        \* concurrent toggle_vote calls: process -> frame
    users,        \* User table: set of rows [id, number, email, password, is_active]
    otps,         \* OTP store: set of [user, code, iss]
    nextIss,      \* the number of the next OTP issuance
    succ,         \* issuance -> number of VerifyOTPView requests that succeeded with it
    replaced,     \* issuances that were outstanding when a later GenerateOTPView completed
    revoked,      \* issuances that were outstanding when a password login succeeded
    vprocs,       \* concurrent VerifyOTPView requests: process -> frame
    calls,        \* number of calls/requests started so far
    last          \* the last call or request and what it returned

prodVars == <<comments, votes, nextVoteId, procs>>
authVars == <<users, otps, nextIss, succ, replaced, revoked, vprocs>>
vars == <<comments, votes, nextVoteId, procs, users, otps, nextIss, succ,
          replaced, revoked, vprocs, calls, last>>

(***************************************************************************)
(* Bounds                                                                  *)
(***************************************************************************)
MaxCalls == 4        \* atomic toggle_vote calls in one run
MaxConcCalls == 3    \* interleaved toggle_vote calls in one run
MaxComments == 3     \* stored comments in the comment-thread runs
MaxSaves == 4        \* CommentProduct.save calls in one run
MaxIssue == 3        \* OTP issuances in one run
MaxRequests == 5     \* account requests in one run

Voters == {"u1", "u2"}
Products == {"prodA", "prodB"}
Procs == {"p1", "p2"}
NoId == 0

(***************************************************************************)
(* products/models.py                                                      *)
(***************************************************************************)
LIKE == "like"
DISLIKE == "dislike"
VoteType == {LIKE, DISLIKE}
BlankVoteType == ""

\* A freshly constructed CommentProduct row.
NewComment(product, parent) ==
    [product |-> product, parent_comment |-> parent,
     likes_count |-> 0, dislikes_count |-> 0]

\* PositiveIntegerField: the column carries a CHECK (value >= 0).
PositiveIntegerField(n) == n >= 0

CommentRowValid(cm) ==
    PositiveIntegerField(cm.likes_count) /\ PositiveIntegerField(cm.dislikes_count)

\* Faulty variant: the table has no unique constraint.
UniqueTogetherOff(rows, id, c, u) == TRUE

\* Meta.unique_together = ['comment', 'user'], seen by a row about to be
\* written with primary key id.
UniqueTogether(rows, id, c, u) ==
    \A v \in rows : (v.comment = c /\ v.user = u) => v.id = id

VotesOf(rows, c, u) == {v \in rows : v.comment = c /\ v.user = u}

\* The row a query returns when several match (none of the code orders them).
PickVote(found) == CHOOSE v \in found : \A w \in found : v.id <= w.id

\* The counter arithmetic of the three branches of toggle_vote.
CountsRegistered(cm, t) ==
    IF t = LIKE THEN [cm EXCEPT !.likes_count = @ + 1]
                ELSE [cm EXCEPT !.dislikes_count = @ + 1]

CountsRemoved(cm, t) ==
    IF t = LIKE THEN [cm EXCEPT !.likes_count = @ - 1]
                ELSE [cm EXCEPT !.dislikes_count = @ - 1]

\* Faulty variant: a changed vote is counted for its new type and stays counted for
\* the old one.
CountsChangedNoDecrement(cm, t) ==
    IF t = LIKE THEN [cm EXCEPT !.likes_count = @ + 1]
                ELSE [cm EXCEPT !.dislikes_count = @ + 1]

CountsChanged(cm, t) ==
    IF t = LIKE
    THEN [cm EXCEPT !.likes_count = @ + 1, !.dislikes_count = @ - 1]
    ELSE [cm EXCEPT !.dislikes_count = @ + 1, !.likes_count = @ - 1]

\* Model.save() of a vote row: UPDATE by primary key, INSERT when no row has it.
\* The result is the new table, or the old one when the INSERT breaks the
\* unique constraint.
VoteSaveOK(rows, v) ==
    \/ \E w \in rows : w.id = v.id
    \/ UniqueTogether(rows, v.id, v.comment, v.user)

VoteSaved(rows, v) == {w \in rows : w.id # v.id} \cup {v}

\* Faulty variant: the delete filters on the comment instead of the primary key.
VoteDeletedByComment(rows, v) == {w \in rows : w.comment # v.comment}

VoteDeleted(rows, v) == {w \in rows : w.id # v.id}

Returned(comment_id, user, vote_type, r) ==
    [op |-> "toggle_vote", comment_id |-> comment_id, user |-> user,
     vote_type |-> vote_type, ret |-> r]

\* Faulty variant: a missing comment is answered with a blank row instead of
\* DoesNotExist.
get_comment_or_blank(tbl, comment_id) ==
    IF comment_id \in DOMAIN tbl THEN {tbl[comment_id]} ELSE {NewComment("", NoId)}

\* CommentProduct.objects.get(id=comment_id): the row, or none (DoesNotExist).
get_comment(tbl, comment_id) ==
    IF comment_id \in DOMAIN tbl THEN {tbl[comment_id]} ELSE {}

\* comment.save(): every column of the in-memory row is written back.
CommentSaved(tbl, comment_id, cm) == [tbl EXCEPT ![comment_id] = cm]

\* VoteComment.toggle_vote(comment_id, user, vote_type), run alone from its
\* first statement to its return.
toggle_vote(comment_id, user, vote_type) ==
    LET got == get_comment(comments, comment_id)
        comment == CHOOSE cm \in got : TRUE
        found == VotesOf(votes, comment_id, user)
        Ret(r) == last' = Returned(comment_id, user, vote_type, r)
        Finish(cm, r) ==
            IF CommentRowValid(cm)
            THEN comments' = CommentSaved(comments, comment_id, cm) /\ Ret(r)
            ELSE UNCHANGED comments /\ Ret("IntegrityError")
    IN
    /\ calls < MaxCalls
    /\ calls' = calls + 1
    /\ UNCHANGED <<procs, authVars>>
    /\ IF got = {}
       THEN Ret("COMMENT_NOT_FOUND") /\ UNCHANGED <<comments, votes, nextVoteId>>
       ELSE IF Cardinality(found) > 1
       THEN Ret("MultipleObjectsReturned") /\ UNCHANGED <<comments, votes, nextVoteId>>
       ELSE IF found = {}
       THEN \* created: the row is inserted blank, then saved with its type
            LET v == [id |-> nextVoteId, comment |-> comment_id, user |-> user,
                      vote_type |-> vote_type]
            IN /\ votes' = VoteSaved(votes, v)
               /\ nextVoteId' = nextVoteId + 1
               /\ Finish(CountsRegistered(comment, vote_type),
                         "VOTE_REGISTERED")
       ELSE LET existing_vote == PickVote(found)
            IN /\ UNCHANGED nextVoteId
               /\ IF existing_vote.vote_type = vote_type
                  THEN /\ votes' = VoteDeleted(votes, existing_vote)
                       /\ Finish(CountsRemoved(comment, vote_type),
                                 "VOTE_REMOVED")
                  ELSE /\ votes' = VoteSaved(votes,
                                     [existing_vote EXCEPT !.vote_type = vote_type])
                       /\ Finish(CountsChanged(comment, vote_type),
                                 "VOTE_CHANGED")

(***************************************************************************)
(* toggle_vote statement by statement: each ORM statement is one step, and *)
(* the calls of different processes interleave.                            *)
(***************************************************************************)
IdleFrame ==
    [pc |-> "idle", comment_id |-> NoId, user |-> "", vote_type |-> "",
     comment |-> NewComment("", NoId),
     vote |-> [id |-> NoId, comment |-> NoId, user |-> "", vote_type |-> ""],
     res |-> ""]

Return(p, r) ==
    /\ procs' = [procs EXCEPT ![p] = IdleFrame]
    /\ last' = Returned(procs[p].comment_id, procs[p].user, procs[p].vote_type, r)

\* The frame after get_or_create returned (existing_vote, created = False).
FoundFrame(f, existing_vote) ==
    IF existing_vote.vote_type = f.vote_type
    THEN [f EXCEPT !.pc = "delete_vote", !.vote = existing_vote,
                   !.comment = CountsRemoved(f.comment, f.vote_type),
                   !.res = "VOTE_REMOVED"]
    ELSE [f EXCEPT !.pc = "save_vote",
                   !.vote = [existing_vote EXCEPT !.vote_type = f.vote_type],
                   !.comment = CountsChanged(f.comment, f.vote_type),
                   !.res = "VOTE_CHANGED"]

Call(p, comment_id, user, vote_type) ==
    /\ procs[p].pc = "idle"
    /\ calls < MaxConcCalls
    /\ calls' = calls + 1
    /\ procs' = [procs EXCEPT ![p] = [IdleFrame EXCEPT !.pc = "get_comment",
                     !.comment_id = comment_id, !.user = user,
                     !.vote_type = vote_type]]
    /\ UNCHANGED <<comments, votes, nextVoteId, authVars, last>>

\* CommentProduct.objects.get(id=comment_id)
GetComment(p) ==
    /\ procs[p].pc = "get_comment"
    /\ IF get_comment(comments, procs[p].comment_id) # {}
       THEN /\ procs' = [procs EXCEPT ![p].pc = "get_vote",
                 ![p].comment =
                     CHOOSE cm \in get_comment(comments, procs[p].comment_id) : TRUE]
            /\ UNCHANGED last
       ELSE Return(p, "COMMENT_NOT_FOUND")
    /\ UNCHANGED <<comments, votes, nextVoteId, authVars, calls>>

\* get_or_create, its SELECT
GetVote(p) ==
    LET f == procs[p]
        found == VotesOf(votes, f.comment_id, f.user)
    IN
    /\ f.pc = "get_vote"
    /\ IF Cardinality(found) > 1
       THEN Return(p, "MultipleObjectsReturned")
       ELSE /\ procs' = [procs EXCEPT ![p] =
                 IF found = {} THEN [f EXCEPT !.pc = "create_vote"]
                 ELSE FoundFrame(f, PickVote(found))]
            /\ UNCHANGED last
    /\ UNCHANGED <<comments, votes, nextVoteId, authVars, calls>>

\* get_or_create, its INSERT of a row with a blank vote_type; on the unique
\* constraint's IntegrityError it returns the row that is there.
CreateVote(p) ==
    LET f == procs[p]
        v == [id |-> nextVoteId, comment |-> f.comment_id, user |-> f.user,
              vote_type |-> BlankVoteType]
    IN
    /\ f.pc = "create_vote"
    /\ IF UniqueTogether(votes, v.id, v.comment, v.user)
       THEN /\ votes' = votes \cup {v}
            /\ nextVoteId' = nextVoteId + 1
            /\ procs' = [procs EXCEPT ![p] =
                 [f EXCEPT !.pc = "save_vote",
                           !.vote = [v EXCEPT !.vote_type = f.vote_type],
                           !.comment = CountsRegistered(f.comment, f.vote_type),
                           !.res = "VOTE_REGISTERED"]]
       ELSE /\ procs' = [procs EXCEPT ![p] =
                 FoundFrame(f, PickVote(VotesOf(votes, f.comment_id, f.user)))]
            /\ UNCHANGED <<votes, nextVoteId>>
    /\ UNCHANGED <<comments, authVars, calls, last>>

\* existing_vote.save()
SaveVote(p) ==
    LET f == procs[p] IN
    /\ f.pc = "save_vote"
    /\ IF VoteSaveOK(votes, f.vote)
       THEN /\ votes' = VoteSaved(votes, f.vote)
            /\ procs' = [procs EXCEPT ![p].pc = "save_comment"]
            /\ UNCHANGED last
       ELSE Return(p, "IntegrityError") /\ UNCHANGED votes
    /\ UNCHANGED <<comments, nextVoteId, authVars, calls>>

\* existing_vote.delete()
DeleteVote(p) ==
    /\ procs[p].pc = "delete_vote"
    /\ votes' = VoteDeleted(votes, procs[p].vote)
    /\ procs' = [procs EXCEPT ![p].pc = "save_comment"]
    /\ UNCHANGED <<comments, nextVoteId, authVars, calls, last>>

\* comment.save() and the return
SaveComment(p) ==
    LET f == procs[p] IN
    /\ f.pc = "save_comment"
    /\ IF CommentRowValid(f.comment)
       THEN comments' = CommentSaved(comments, f.comment_id, f.comment)
            /\ Return(p, f.res)
       ELSE UNCHANGED comments /\ Return(p, "IntegrityError")
    /\ UNCHANGED <<votes, nextVoteId, authVars, calls>>

(***************************************************************************)
(* CommentProduct.clean and CommentProduct.save                            *)
(***************************************************************************)
\* clean(): TRUE when no ValidationError is raised for a comment with this
\* product and parent_comment.  The parent is the stored row.
clean(tbl, product, parent) ==
    IF parent # NoId
    THEN /\ ~(product # tbl[parent].product)
         /\ ~(tbl[parent].parent_comment # NoId)
    ELSE TRUE

SaveReturned(id, product, parent, r) ==
    [op |-> "save", id |-> id, product |-> product, parent |-> parent, ret |-> r]

\* save() of a new comment
CreateComment(product, parent) ==
    LET id == Cardinality(DOMAIN comments) + 1 IN
    /\ calls < MaxSaves
    /\ Cardinality(DOMAIN comments) < MaxComments
    /\ calls' = calls + 1
    /\ IF clean(comments, product, parent)
       THEN /\ comments' = comments @@ (id :> NewComment(product, parent))
            /\ last' = SaveReturned(id, product, parent, "saved")
       ELSE /\ UNCHANGED comments
            /\ last' = SaveReturned(NoId, product, parent, "ValidationError")
    /\ UNCHANGED <<votes, nextVoteId, procs, authVars>>

\* save() of a stored comment whose product or parent_comment was assigned
ResaveComment(id, product, parent) ==
    /\ calls < MaxSaves
    /\ calls' = calls + 1
    /\ IF clean(comments, product, parent)
       THEN /\ comments' = [comments EXCEPT ![id].product = product,
                                            ![id].parent_comment = parent]
            /\ last' = SaveReturned(id, product, parent, "saved")
       ELSE /\ UNCHANGED comments
            /\ last' = SaveReturned(id, product, parent, "ValidationError")
    /\ UNCHANGED <<votes, nextVoteId, procs, authVars>>

(***************************************************************************)
(* accounts: the User table and the OTP store                              *)
(***************************************************************************)
Numbers == {"n1", "n2"}
Emails == {"e1", "e2"}
Passwords == {"pw1", "pw2"}
Codes == {"111111", "222222"}
Invalid == "bad"          \* request data the serializer rejects
VProcs == {"r1", "r2"}

HTTP_200_OK == 200
HTTP_201_CREATED == 201
HTTP_400_BAD_REQUEST == 400
HTTP_401_UNAUTHORIZED == 401
HTTP_404_NOT_FOUND == 404
HTTP_500 == 500

\* A user row as User(number=number) is stored: not yet active, no email,
\* no usable password.
NewUser(id, number) ==
    [id |-> id, number |-> number, email |-> "", password |-> "",
     is_active |-> FALSE]

\* A user who has set an email and a password (set-email/, set-new-password/).
RegisteredUser(id, number, email, password, active) ==
    [id |-> id, number |-> number, email |-> email, password |-> password,
     is_active |-> active]

\* user.check_password(raw)
check_password(user, raw) == user.password # "" /\ user.password = raw

\* accounts/otp.py
generate_otp(store, uid, code, iss) ==
    store \cup {[user |-> uid, code |-> code, iss |-> iss]}

verify_otp(store, uid, otp) == \E r \in store : r.user = uid /\ r.code = otp

delete_otp(store, uid) == {r \in store : r.user # uid}

\* The issuances a code of this user matches, and those the user has outstanding.
Matched(store, uid, otp) == {r.iss : r \in {x \in store : x.user = uid /\ x.code = otp}}
Outstanding(store, uid) == {r \in store : r.user = uid}

ByNumber(tbl, number) == {u \in tbl : u.number = number}
ByEmail(tbl, email) == {u \in tbl : u.email = email}
TheUser(found) == CHOOSE u \in found : \A w \in found : u.id <= w.id

\* User.objects.get_or_create(number=number): <<table, user, created>>
get_or_create(tbl, number) ==
    LET found == ByNumber(tbl, number) IN
    IF found # {}
    THEN <<tbl, TheUser(found), FALSE>>
    ELSE LET user == NewUser(Cardinality(tbl) + 1, number)
         IN <<tbl \cup {user}, user, TRUE>>

\* user.save()
UserSaved(tbl, user) == {u \in tbl : u.id # user.id} \cup {user}

\* Faulty variant: the stored OTP is not deleted before the new one is generated.
GenerateStoreKeep(store, uid, code, iss) == generate_otp(store, uid, code, iss)

\* GenerateOTPView.post: delete_otp(user.id); otp = generate_otp(user.id)
GenerateStore(store, uid, code, iss) ==
    generate_otp(delete_otp(store, uid), uid, code, iss)

\* Faulty variant: the code is looked up without the user's id.
OtpAcceptedAnyUser(store, user, otp) == \E r \in store : r.code = otp

\* VerifyOTPView.post: verify_otp(user.id, data['otp'])
OtpAccepted(store, user, otp) == verify_otp(store, user.id, otp)

\* Faulty variant: a password login leaves the stored OTP.
LoginStoreKeep(store, uid) == store

\* The password views: delete_otp(user.id)
LoginStore(store, uid) == delete_otp(store, uid)

Response(op, key, secret, st, token_user, created, iss) ==
    [op |-> op, key |-> key, secret |-> secret, status |-> st,
     token_user |-> token_user, created |-> created, iss |-> iss]

\* VerifyOTPView._handle_login(number): <<table, token user, created>>
handle_login(tbl, number) ==
    LET found == ByNumber(tbl, number) IN
    IF found = {}
    THEN LET user == NewUser(Cardinality(tbl) + 1, number)
         IN <<tbl \cup {user}, user.id, TRUE>>
    ELSE <<tbl, TheUser(found).id, FALSE>>

\* GenerateOTPView.post
GenerateOTPView_post(number, code) ==
    /\ calls < MaxRequests
    /\ nextIss <= MaxIssue
    /\ calls' = calls + 1
    /\ UNCHANGED <<prodVars, vprocs, succ, revoked>>
    /\ IF number = Invalid
       THEN /\ last' = Response("generate", number, code, HTTP_400_BAD_REQUEST,
                                NoId, FALSE, {})
            /\ UNCHANGED <<users, otps, nextIss, replaced>>
       ELSE IF Cardinality(ByNumber(users, number)) > 1
       THEN /\ last' = Response("generate", number, code, HTTP_500, NoId, FALSE, {})
            /\ UNCHANGED <<users, otps, nextIss, replaced>>
       ELSE LET goc == get_or_create(users, number)
                user == goc[2]
                created == goc[3]
            IN /\ users' = goc[1]
               /\ otps' = GenerateStore(otps, user.id, code, nextIss)
               /\ nextIss' = nextIss + 1
               /\ replaced' = replaced \cup Outstanding(otps, user.id)
               /\ last' = Response("generate", number, code,
                             IF created THEN HTTP_201_CREATED ELSE HTTP_200_OK,
                             NoId, created, {nextIss})

\* The OTP store drops a code whose lifetime has run out.
Expire(r) ==
    /\ r \in otps
    /\ otps' = otps \ {r}
    /\ last' = Response("expire", "", r.code, HTTP_200_OK, NoId, FALSE, {r.iss})
    /\ UNCHANGED <<prodVars, users, nextIss, succ, replaced, revoked, vprocs, calls>>

Counted(cnt, isss) == [i \in DOMAIN cnt |-> IF i \in isss THEN cnt[i] + 1 ELSE cnt[i]]

\* VerifyOTPView.post, run alone from its first statement to its response
VerifyOTPView_post(number, otp) ==
    LET found == ByNumber(users, number) IN
    /\ calls < MaxRequests
    /\ calls' = calls + 1
    /\ UNCHANGED <<prodVars, vprocs, nextIss, replaced, revoked>>
    /\ IF number = Invalid \/ otp = Invalid
       THEN /\ last' = Response("verify", number, otp, HTTP_400_BAD_REQUEST,
                                NoId, FALSE, {})
            /\ UNCHANGED <<users, otps, succ>>
       ELSE IF Cardinality(found) # 1
       THEN /\ last' = Response("verify", number, otp,
                          IF found = {} THEN HTTP_404_NOT_FOUND ELSE HTTP_500,
                          NoId, FALSE, {})
            /\ UNCHANGED <<users, otps, succ>>
       ELSE LET user == TheUser(found) IN
            IF OtpAccepted(otps, user, otp)
            THEN LET saved == UserSaved(users, [user EXCEPT !.is_active = TRUE])
                     login == handle_login(saved, number)
                 IN /\ users' = login[1]
                    /\ otps' = delete_otp(otps, user.id)
                    /\ succ' = Counted(succ, Matched(otps, user.id, otp))
                    /\ last' = Response("verify", number, otp, HTTP_200_OK,
                                        login[2], login[3],
                                        Matched(otps, user.id, otp))
            ELSE /\ last' = Response("verify", number, otp, HTTP_401_UNAUTHORIZED,
                                     NoId, FALSE, {})
                 /\ UNCHANGED <<users, otps, succ>>

\* EmailLoginView.post and NumberLoginView.post differ in the lookup only.
PasswordLogin(op, key, found, password) ==
    /\ calls < MaxRequests
    /\ calls' = calls + 1
    /\ UNCHANGED <<prodVars, vprocs, users, nextIss, succ, replaced>>
    /\ IF key = Invalid \/ password = Invalid
       THEN /\ last' = Response(op, key, password, HTTP_400_BAD_REQUEST,
                                NoId, FALSE, {})
            /\ UNCHANGED <<otps, revoked>>
       ELSE IF Cardinality(found) # 1
       THEN /\ last' = Response(op, key, password,
                          IF found = {} THEN HTTP_404_NOT_FOUND ELSE HTTP_500,
                          NoId, FALSE, {})
            /\ UNCHANGED <<otps, revoked>>
       ELSE LET user == TheUser(found) IN
            IF check_password(user, password)
            THEN /\ otps' = LoginStore(otps, user.id)
                 /\ revoked' = revoked \cup Outstanding(otps, user.id)
                 /\ last' = Response(op, key, password, HTTP_200_OK,
                                     user.id, FALSE, {})
            ELSE /\ last' = Response(op, key, password, HTTP_401_UNAUTHORIZED,
                                     NoId, FALSE, {})
                 /\ UNCHANGED <<otps, revoked>>

EmailLoginView_post(email, password) ==
    PasswordLogin("email_login", email, ByEmail(users, email), password)

NumberLoginView_post(number, password) ==
    PasswordLogin("number_login", number, ByNumber(users, number), password)

(***************************************************************************)
(* VerifyOTPView.post statement by statement, several requests interleaved *)
(***************************************************************************)
IdleRequest ==
    [pc |-> "idle", number |-> "", otp |-> "", user |-> NewUser(NoId, ""),
     iss |-> {}]

Respond(p, st, token_user, created) ==
    /\ vprocs' = [vprocs EXCEPT ![p] = IdleRequest]
    /\ last' = Response("verify", vprocs[p].number, vprocs[p].otp, st,
                        token_user, created, vprocs[p].iss)

\* serializer.is_valid(); user = get_object_or_404(User, number=...)
VStart(p, number, otp) ==
    LET found == ByNumber(users, number) IN
    /\ vprocs[p].pc = "idle"
    /\ calls < MaxRequests
    /\ calls' = calls + 1
    /\ IF number = Invalid \/ otp = Invalid \/ Cardinality(found) # 1
       THEN /\ last' = Response("verify", number, otp,
                          IF number = Invalid \/ otp = Invalid
                          THEN HTTP_400_BAD_REQUEST
                          ELSE IF found = {} THEN HTTP_404_NOT_FOUND ELSE HTTP_500,
                          NoId, FALSE, {})
            /\ UNCHANGED vprocs
       ELSE /\ vprocs' = [vprocs EXCEPT ![p] =
                 [IdleRequest EXCEPT !.pc = "verify_otp", !.number = number,
                                     !.otp = otp, !.user = TheUser(found)]]
            /\ UNCHANGED last
    /\ UNCHANGED <<prodVars, users, otps, nextIss, succ, replaced, revoked>>

\* verify_otp(user.id, data['otp'])
VCheck(p) ==
    LET f == vprocs[p] IN
    /\ f.pc = "verify_otp"
    /\ IF OtpAccepted(otps, f.user, f.otp)
       THEN /\ vprocs' = [vprocs EXCEPT ![p].pc = "save_user",
                              ![p].iss = Matched(otps, f.user.id, f.otp)]
            /\ UNCHANGED last
       ELSE Respond(p, HTTP_401_UNAUTHORIZED, NoId, FALSE)
    /\ UNCHANGED <<prodVars, users, otps, nextIss, succ, replaced, revoked, calls>>

\* user.is_active = True; user.save()
VSaveUser(p) ==
    /\ vprocs[p].pc = "save_user"
    /\ users' = UserSaved(users, [vprocs[p].user EXCEPT !.is_active = TRUE])
    /\ vprocs' = [vprocs EXCEPT ![p].pc = "delete_otp"]
    /\ UNCHANGED <<prodVars, otps, nextIss, succ, replaced, revoked, calls, last>>

\* delete_otp(user.id)
VDeleteOtp(p) ==
    /\ vprocs[p].pc = "delete_otp"
    /\ otps' = delete_otp(otps, vprocs[p].user.id)
    /\ vprocs' = [vprocs EXCEPT ![p].pc = "handle_login"]
    /\ UNCHANGED <<prodVars, users, nextIss, succ, replaced, revoked, calls, last>>

\* Response(data=self._handle_login(number), status=200)
VLogin(p) ==
    LET login == handle_login(users, vprocs[p].number) IN
    /\ vprocs[p].pc = "handle_login"
    /\ users' = login[1]
    /\ succ' = Counted(succ, vprocs[p].iss)
    /\ Respond(p, HTTP_200_OK, login[2], login[3])
    /\ UNCHANGED <<prodVars, otps, nextIss, replaced, revoked, calls>>

(***************************************************************************)
(* Initial states and specifications                                       *)
(***************************************************************************)
CommentIds == {1, 2}
MissingCommentId == 3

InitProducts ==
    /\ votes = {}
    /\ nextVoteId = 1
    /\ procs = [p \in Procs |-> IdleFrame]

InitAccounts ==
    /\ otps = {}
    /\ nextIss = 1
    /\ succ = [i \in 1..(MaxIssue + 1) |-> 0]
    /\ replaced = {}
    /\ revoked = {}
    /\ vprocs = [p \in VProcs |-> IdleRequest]

InitGhost ==
    /\ calls = 0
    /\ last = [op |-> "init"]

\* Two stored comments with zero counters, no votes.
InitVote ==
    /\ comments = [c \in CommentIds |-> NewComment("prodA", NoId)]
    /\ users = {}
    /\ InitProducts /\ InitAccounts /\ InitGhost

\* No comment stored yet.
InitThread ==
    /\ comments = [c \in {} |-> NewComment("prodA", NoId)]
    /\ users = {}
    /\ InitProducts /\ InitAccounts /\ InitGhost

\* One user who has registered an email and a password, active or not;
\* every other number is unknown.
InitAuth ==
    /\ comments = [c \in {} |-> NewComment("prodA", NoId)]
    /\ \E active \in BOOLEAN :
         users = {RegisteredUser(1, "n1", "e1", "pw1", active)}
    /\ InitProducts /\ InitAccounts /\ InitGhost

\* toggle_vote calls one at a time
NextVote ==
    \E c \in CommentIds \cup {MissingCommentId}, u \in Voters, t \in VoteType :
        toggle_vote(c, u, t)

SpecVote == InitVote /\ [][NextVote]_vars

\* toggle_vote calls interleaved
NextVoteConc ==
    \/ \E p \in Procs, c \in CommentIds \cup {MissingCommentId}, u \in Voters,
          t \in VoteType : Call(p, c, u, t)
    \/ \E p \in Procs : GetComment(p)
    \/ \E p \in Procs : GetVote(p)
    \/ \E p \in Procs : CreateVote(p)
    \/ \E p \in Procs : SaveVote(p)
    \/ \E p \in Procs : DeleteVote(p)
    \/ \E p \in Procs : SaveComment(p)

SpecVoteConc == InitVote /\ [][NextVoteConc]_vars

\* CommentProduct.save calls
NextThread ==
    \/ \E product \in Products, parent \in DOMAIN comments \cup {NoId} :
          CreateComment(product, parent)
    \/ \E id \in DOMAIN comments, product \in Products :
          \E parent \in (DOMAIN comments \ {id}) \cup {NoId} :
             ResaveComment(id, product, parent)

SpecThread == InitThread /\ [][NextThread]_vars

\* account requests one at a time
NextAuth ==
    \/ \E n \in Numbers \cup {Invalid}, code \in Codes : GenerateOTPView_post(n, code)
    \/ \E n \in Numbers \cup {Invalid}, otp \in Codes : VerifyOTPView_post(n, otp)
    \/ \E e \in Emails \cup {Invalid}, pw \in Passwords : EmailLoginView_post(e, pw)
    \/ \E n \in Numbers \cup {Invalid}, pw \in Passwords : NumberLoginView_post(n, pw)
    \/ \E r \in otps : Expire(r)

Spec == InitAuth /\ [][NextAuth]_vars

\* VerifyOTPView requests interleaved with each other
NextAuthConc ==
    \/ \E n \in Numbers, code \in Codes : GenerateOTPView_post(n, code)
    \/ \E p \in VProcs, n \in Numbers \cup {Invalid}, otp \in Codes : VStart(p, n, otp)
    \/ \E p \in VProcs : VCheck(p)
    \/ \E p \in VProcs : VSaveUser(p)
    \/ \E p \in VProcs : VDeleteOtp(p)
    \/ \E p \in VProcs : VLogin(p)
    \/ \E r \in otps : Expire(r)

SpecAuthConc == InitAuth /\ [][NextAuthConc]_vars

(***************************************************************************)
(* Properties                                                              *)
(***************************************************************************)
VotesOn(c, t) == {v \in votes : v.comment = c /\ v.vote_type = t}

CountersMatch ==
    \A c \in DOMAIN comments :
        /\ comments[c].likes_count = Cardinality(VotesOn(c, LIKE))
        /\ comments[c].dislikes_count = Cardinality(VotesOn(c, DISLIKE))

C3_CountersAfterConcurrentCalls ==
    (\A p \in Procs : procs[p].pc = "idle") =>
        /\ CountersMatch
        /\ \A c \in DOMAIN comments :
              comments[c].likes_count >= 0 /\ comments[c].dislikes_count >= 0

\* C4: at most one VerifyOTPView request succeeds with an issued OTP, however
\* the requests interleave.
C4_SingleUse == \A i \in DOMAIN succ : succ[i] <= 1

\* C5: VerifyOTPView answers 200 with tokens for the user, who is active
\* afterwards, exactly when a stored OTP of the user with that number matches;
\* otherwise it issues no token and leaves the users and the stored OTPs as
\* they were, answering 401 when the user exists; and a user it makes active
\* had a matching OTP stored.
C5_ActivateOnlyOnValidOtp ==
    [][last'.op = "verify" =>
        LET holders == {u \in users : /\ u.number = last'.key
                                      /\ \E r \in otps : /\ r.user = u.id
                                                         /\ r.code = last'.secret}
        IN /\ (holders # {} =>
                  /\ last'.status = HTTP_200_OK
                  /\ \E u \in holders : last'.token_user = u.id
                  /\ \A u \in holders : \E w \in users' : w.id = u.id /\ w.is_active)
           /\ (holders = {} =>
                  /\ last'.status # HTTP_200_OK
                  /\ last'.token_user = NoId
                  /\ users' = users /\ otps' = otps
                  /\ (ByNumber(users, last'.key) # {} /\ last'.secret # Invalid
                         => last'.status = HTTP_401_UNAUTHORIZED))
           /\ \A w \in users' :
                 (w.is_active /\ [w EXCEPT !.is_active = FALSE] \in users)
                     => \E u \in holders : u.id = w.id
      ]_vars

\* An inactive user was made active by a verification.
C5_Witness ==
    /\ last.op = "verify" /\ last.status = HTTP_200_OK
    /\ \E u \in users : /\ u.id = last.token_user /\ u.is_active
                        /\ u.number = "n2"

\* C6: a user never has more than one outstanding OTP and a number never more
\* than one user; a verification never succeeds with an issuance that a
\* later completed GenerateOTPView request for the number replaced; a valid
\* GenerateOTPView request answers 201 when it created the user and 200 when
\* the user existed.
C6_GenerateReplaces ==
    [][/\ \A u \in users' : Cardinality(Outstanding(otps', u.id)) <= 1
       /\ \A n \in Numbers : Cardinality(ByNumber(users', n)) <= 1
       /\ (last'.op = "verify" /\ last'.status = HTTP_200_OK =>
              \A r \in replaced' : r.iss \notin last'.iss)
       /\ (last'.op = "generate" /\ last'.key # Invalid =>
              /\ (ByNumber(users, last'.key) = {} =>
                     last'.status = HTTP_201_CREATED /\ last'.created)
              /\ (ByNumber(users, last'.key) # {} =>
                     last'.status = HTTP_200_OK /\ ~last'.created)
              /\ \E u \in ByNumber(users', last'.key) :
                    \E r \in otps' : r.user = u.id /\ r.iss \in last'.iss)
      ]_vars

\* The code of a replaced issuance was refused for its user.
C6_Witness ==
    /\ last.op = "verify" /\ last.status = HTTP_401_UNAUTHORIZED
    /\ \E r \in replaced, u \in users :
          r.user = u.id /\ u.number = last.key /\ r.code = last.secret
    /\ otps # {}

\* C7: there is at most one VoteComment row for each (comment, user) pair,
\* however toggle_vote calls interleave.
C7_OneVotePerPair ==
    \A c \in DOMAIN comments, u \in Voters : Cardinality(VotesOf(votes, c, u)) <= 1

\* Two first votes of one user on one comment run together: one has inserted
\* its row, the other has passed the SELECT and is about to insert.
C7_Witness ==
    \E p \in Procs :
        /\ procs[p].pc = "create_vote"
        /\ VotesOf(votes, procs[p].comment_id, procs[p].user) # {}

\* C8: toggle_vote with a comment_id of no stored comment returns
\* COMMENT_NOT_FOUND and changes no vote and no comment.
C8_CommentNotFound ==
    [][(last'.op = "toggle_vote" /\ last'.comment_id \notin DOMAIN comments) =>
        /\ last'.ret = "COMMENT_NOT_FOUND"
        /\ votes' = votes
        /\ comments' = comments
        /\ nextVoteId' = nextVoteId
      ]_vars

\* A call named a missing comment while votes were stored.
C8_Witness ==
    /\ last.op = "toggle_vote" /\ last.ret = "COMMENT_NOT_FOUND"
    /\ last.comment_id = MissingCommentId
    /\ votes # {}

\* C9: no stored comment's parent has a parent itself, and every stored reply
\* has its parent's product.
C9_TwoLevelsOneProduct ==
    \A c \in DOMAIN comments :
        comments[c].parent_comment # NoId =>
            /\ comments[comments[c].parent_comment].parent_comment = NoId
            /\ comments[comments[c].parent_comment].product = comments[c].product

\* C10: a password login of a user whose password matches answers 200 with
\* tokens for the user and created = False and leaves the user no stored OTP,
\* and no later verification succeeds with an OTP that was outstanding then;
\* a login with another password answers 401 without tokens and leaves the
\* users and the stored OTPs as they were.
C10_PasswordLogin ==
    [][/\ (last'.op \in {"email_login", "number_login"} =>
            LET found == IF last'.op = "email_login"
                         THEN {u \in users : u.email = last'.key}
                         ELSE {u \in users : u.number = last'.key}
                right == {u \in found : u.password # "" /\ u.password = last'.secret}
            IN /\ (right # {} =>
                      /\ last'.status = HTTP_200_OK
                      /\ ~last'.created
                      /\ \E u \in right : last'.token_user = u.id
                      /\ \A u \in right : \A r \in otps' : r.user # u.id)
               /\ (found # {} /\ right = {} /\ last'.secret # Invalid =>
                      /\ last'.status = HTTP_401_UNAUTHORIZED
                      /\ last'.token_user = NoId
                      /\ otps' = otps)
               /\ users' = users)
       /\ (last'.op = "verify" /\ last'.status = HTTP_200_OK =>
              \A r \in revoked' : r.iss \notin last'.iss)
      ]_vars

\* After a password login, the code that was outstanding was refused.
C10_Witness ==
    /\ last.op = "verify" /\ last.status = HTTP_401_UNAUTHORIZED
    /\ \E r \in revoked, u \in users :
          r.user = u.id /\ u.number = last.key /\ r.code = last.secret

====
